---------------------------- MODULE Spec2Model ----------------------------
(***************************************************************************)
(* IGS site log parser (igs_site_log_parser.py) and the helpers of         *)
(* utils.py it calls, as a state machine.                                  *)
(*                                                                         *)
(* One parser instance.  loadFromFile is unfolded into the steps of its    *)
(* "for line in f_in" loop: LoadFromFile enters __parseFile, ReadLine is   *)
(* one iteration of the loop on the next physical line of the file, and    *)
(* EndOfFile is everything after the loop (step 2, the warning and error   *)
(* post-processing, the raise or the return, and the assignment to         *)
(* self.content).  Text is kept as TLA+ strings; a character is a string   *)
(* of length one.                                                          *)
(***************************************************************************)
EXTENDS Integers, Sequences, FiniteSets, TLC

\* Largest number of physical lines of one file.
MaxLines == 4

\* Largest number of loadFromFile calls on the parser instance.
MaxLoads == 2

-----------------------------------------------------------------------------
(* Python string primitives used by the parser.                            *)

Ch(s, i) == SubSeq(s, i, i)

Digits == {"0", "1", "2", "3", "4", "5", "6", "7", "8", "9"}

\* The whitespace str.strip(), str.split() and the regex class \s remove.
Whitespace == {" ", "\t"}

\* Python's None where a string is expected (sectionnum, subsectionnum,
\* subkey).  No stripped token of a file starts with a blank, so the value
\* cannot collide with a numeral or a label.
None == " None"

\* Python truthiness of a string-or-None.
Truthy(s) == s # None /\ s # ""

IsAllDigits(s) == Len(s) >= 1 /\ \A i \in 1..Len(s) : Ch(s, i) \in Digits

RECURSIVE lstrip(_)
lstrip(s) ==
    IF Len(s) >= 1 /\ Ch(s, 1) \in Whitespace
    THEN lstrip(SubSeq(s, 2, Len(s)))
    ELSE s

RECURSIVE rstrip(_)
rstrip(s) ==
    IF Len(s) >= 1 /\ Ch(s, Len(s)) \in Whitespace
    THEN rstrip(SubSeq(s, 1, Len(s) - 1))
    ELSE s

\* str.strip()
strip(s) == rstrip(lstrip(s))

\* s.startswith(p), s.endswith(p), p in s
startswith(s, p) == Len(s) >= Len(p) /\ SubSeq(s, 1, Len(p)) = p
endswith(s, p) == Len(s) >= Len(p) /\ SubSeq(s, Len(s) - Len(p) + 1, Len(s)) = p
contains(s, p) == \E i \in 1..(Len(s) - Len(p) + 1) : SubSeq(s, i, i + Len(p) - 1) = p

\* Index of the first character of s that is in set cs, 0 when there is none.
FirstIn(s, cs) ==
    IF \E i \in 1..Len(s) : Ch(s, i) \in cs
    THEN CHOOSE i \in 1..Len(s) : Ch(s, i) \in cs /\ \A j \in 1..(i - 1) : Ch(s, j) \notin cs
    ELSE 0

\* Index of the last character of s that is in set cs, 0 when there is none.
LastIn(s, cs) ==
    IF \E i \in 1..Len(s) : Ch(s, i) \in cs
    THEN CHOOSE i \in 1..Len(s) : Ch(s, i) \in cs /\ \A j \in (i + 1)..Len(s) : Ch(s, j) \notin cs
    ELSE 0

\* s.split(maxsplit=1): split on runs of whitespace, at most one split.
\* The result has 0, 1 or 2 elements.
split_ws1(s) ==
    LET t == lstrip(s)
        i == FirstIn(t, Whitespace)
    IN  IF t = "" THEN <<>>
        ELSE IF i = 0 THEN <<t>>
        ELSE LET r == lstrip(SubSeq(t, i, Len(t)))
             IN  IF r = "" THEN <<SubSeq(t, 1, i - 1)>>
                 ELSE <<SubSeq(t, 1, i - 1), r>>

\* s.split(sep, maxsplit=1) for a one-character separator.
split_sep1(s, sep) ==
    LET i == FirstIn(s, {sep})
    IN  IF i = 0 THEN <<s>>
        ELSE <<SubSeq(s, 1, i - 1), SubSeq(s, i + 1, Len(s))>>

\* s.split(sep) for a one-character separator: every field.
RECURSIVE split_sep(_, _)
split_sep(s, sep) ==
    LET i == FirstIn(s, {sep})
    IN  IF i = 0 THEN <<s>>
        ELSE <<SubSeq(s, 1, i - 1)>> \o split_sep(SubSeq(s, i + 1, Len(s)), sep)

\* s.rsplit(sep, 1) for a one-character separator.
rsplit_sep1(s, sep) ==
    LET i == LastIn(s, {sep})
    IN  IF i = 0 THEN <<s>>
        ELSE <<SubSeq(s, 1, i - 1), SubSeq(s, i + 1, Len(s))>>

\* s.replace(old, '') : every non-overlapping occurrence, left to right.
RECURSIVE replace_del(_, _)
replace_del(s, old) ==
    IF Len(s) < Len(old) THEN s
    ELSE IF SubSeq(s, 1, Len(old)) = old
         THEN replace_del(SubSeq(s, Len(old) + 1, Len(s)), old)
         ELSE Ch(s, 1) \o replace_del(SubSeq(s, 2, Len(s)), old)

\* sep.join(parts)
RECURSIVE join(_, _)
join(sep, parts) ==
    IF parts = <<>> THEN ""
    ELSE IF Len(parts) = 1 THEN parts[1]
    ELSE parts[1] \o sep \o join(sep, Tail(parts))

\* s[-n:] and s[:-n] for n >= 1 (a slice past the start is clipped).
last_n(s, n) == IF Len(s) <= n THEN s ELSE SubSeq(s, Len(s) - n + 1, Len(s))
drop_last_n(s, n) == IF Len(s) <= n THEN "" ELSE SubSeq(s, 1, Len(s) - n)

DigitVal(c) == CHOOSE n \in 0..9 : Ch("0123456789", n + 1) = c

RECURSIVE ToNat(_)
ToNat(s) == IF s = "" THEN 0 ELSE 10 * ToNat(SubSeq(s, 1, Len(s) - 1)) + DigitVal(Ch(s, Len(s)))

RECURSIVE Pow10(_)
Pow10(n) == IF n = 0 THEN 1 ELSE 10 * Pow10(n - 1)

-----------------------------------------------------------------------------
(* Cleaned values.  Every value has the same four fields so that values of *)
(* different Python types can be compared: t is the Python type, s the     *)
(* text of a str, n the numbers of a float or datetime, l the elements of  *)
(* a list.                                                                 *)

StrVal(s) == [t |-> "str", s |-> s, n |-> <<>>, l |-> <<>>]
\* float(): the number mant / 10^scale, without trailing zeros in mant.
FloatVal(mant, scale) == [t |-> "float", s |-> "", n |-> <<mant, scale>>, l |-> <<>>]
\* dms2dec(): sign * (whole + frac8 / 10^8) decimal degrees.
DegVal(sign, whole, frac8) == [t |-> "float", s |-> "", n |-> <<sign, whole, frac8>>, l |-> <<>>]
\* datetime(Y, M, D, h, m, s, us, tzinfo=utc)
DateVal(ymd) == [t |-> "datetime", s |-> "", n |-> ymd, l |-> <<>>]
ListVal(elems) == [t |-> "list", s |-> "", n |-> <<>>, l |-> elems]
NoneVal == [t |-> "None", s |-> "", n |-> <<>>, l |-> <<>>]

\* The outcome of a call: a returned value, or a raised exception.
Return(v) == [ok |-> TRUE, val |-> v, exc |-> "", msg |-> ""]
Raise(exc, msg) == [ok |-> FALSE, val |-> NoneVal, exc |-> exc, msg |-> msg]

-----------------------------------------------------------------------------
(* float(text): optional blanks, optional sign, digits with an optional    *)
(* point.  (Exponents, underscores, inf and nan are not used by the lines  *)
(* of the model.)                                                          *)

RECURSIVE StripZeros(_, _)
StripZeros(mant, scale) ==
    IF scale > 0 /\ mant % 10 = 0 THEN StripZeros(mant \div 10, scale - 1) ELSE <<mant, scale>>

\* float() of a sign and the digits before and after the point.
FloatDigits(text, sgn, nparts, whole, frac) ==
    IF /\ nparts \in {1, 2}
       /\ whole = "" \/ IsAllDigits(whole)
       /\ frac = "" \/ IsAllDigits(frac)
       /\ whole # "" \/ frac # ""
    THEN Return(FloatVal(sgn * StripZeros(ToNat(whole \o frac), Len(frac))[1],
                         StripZeros(ToNat(whole \o frac), Len(frac))[2]))
    ELSE Raise("ValueError", "could not convert string to float: '" \o text \o "'")

FloatSplit(text, sgn, parts) ==
    FloatDigits(text, sgn, Len(parts), parts[1], IF Len(parts) = 2 THEN parts[2] ELSE "")

FloatStripped(text, t) ==
    IF Len(t) >= 1 /\ Ch(t, 1) \in {"+", "-"}
    THEN FloatSplit(text, IF Ch(t, 1) = "-" THEN -1 ELSE 1, split_sep(SubSeq(t, 2, Len(t)), "."))
    ELSE FloatSplit(text, 1, split_sep(t, "."))

float(text) == FloatStripped(text, strip(text))

-----------------------------------------------------------------------------
(* utils.parse_date *)

IsLeap(y) == (y % 4 = 0 /\ y % 100 # 0) \/ y % 400 = 0

DaysInMonth(y, m) ==
    IF m = 2 THEN (IF IsLeap(y) THEN 29 ELSE 28)
    ELSE IF m \in {4, 6, 9, 11} THEN 30 ELSE 31

\* One or two digits with a value in lo..hi: what the strptime patterns of
\* %m, %H, %M and %S accept.
Num12(s, lo, hi) == Len(s) \in {1, 2} /\ IsAllDigits(s) /\ ToNat(s) \in lo..hi

\* %d also accepts a blank followed by one digit.
DayText(s) == IF Len(s) = 2 /\ Ch(s, 1) = " " THEN SubSeq(s, 2, 2) ELSE s

\* strptime '%Y-%m-%d' on the three '-'-separated parts.
StrpDateParts(p) ==
    IF /\ Len(p) = 3
       /\ Len(p[1]) = 4 /\ IsAllDigits(p[1]) /\ ToNat(p[1]) >= 1
       /\ Num12(p[2], 1, 12)
       /\ Num12(DayText(p[3]), 1, 31)
       /\ ToNat(DayText(p[3])) <= DaysInMonth(ToNat(p[1]), ToNat(p[2]))
    THEN <<ToNat(p[1]), ToNat(p[2]), ToNat(DayText(p[3]))>>
    ELSE <<>>

\* strptime(text, '%Y-%m-%d'): <<Y, M, D>>, or <<>> when it raises.
StrpDate(text) == StrpDateParts(split_sep(text, "-"))

\* %f: one to six digits, read as a decimal fraction of a second.
Micro(s) == ToNat(s) * Pow10(6 - Len(s))

\* The clock on its ':'-separated parts p and the '.'-separated parts sf of
\* the seconds.  A second of 60 or 61 matches the pattern but is rejected
\* by datetime.
StrpClockParts(p, sf, nparts, withfrac) ==
    IF /\ Len(p) = nparts
       /\ Num12(p[1], 0, 23)
       /\ Num12(p[2], 0, 59)
       /\ nparts = 3 =>
            /\ Len(sf) = (IF withfrac THEN 2 ELSE 1)
            /\ Num12(sf[1], 0, 59)
            /\ withfrac => (Len(sf[2]) \in 1..6 /\ IsAllDigits(sf[2]))
    THEN <<ToNat(p[1]), ToNat(p[2]),
           IF nparts = 3 THEN ToNat(sf[1]) ELSE 0,
           IF nparts = 3 /\ withfrac THEN Micro(sf[2]) ELSE 0>>
    ELSE <<>>

StrpClockSplit(p, nparts, withfrac) ==
    StrpClockParts(p, IF Len(p) = 3 THEN split_sep(p[3], ".") ELSE <<"0">>, nparts, withfrac)

\* strptime of the clock part 'H:M', 'H:M:S' or 'H:M:S.f' (nparts says
\* which): <<h, m, s, us>>, or <<>> when it raises.
StrpClock(text, nparts, withfrac) == StrpClockSplit(split_sep(text, ":"), nparts, withfrac)

StrpZJoin(d, c) == IF d = <<>> \/ c = <<>> THEN <<>> ELSE d \o c

StrpZAt(text, i, nparts, withfrac) ==
    IF i = 0 \/ ~(endswith(text, "Z") \/ endswith(text, "z")) THEN <<>>
    ELSE StrpZJoin(StrpDate(SubSeq(text, 1, i - 1)),
                   StrpClock(SubSeq(text, i + 1, Len(text) - 1), nparts, withfrac))

\* strptime(text, '%Y-%m-%dT<clock>Z'); the letters match in either case.
StrpZ(text, nparts, withfrac) == StrpZAt(text, FirstIn(text, {"T", "t"}), nparts, withfrac)

\* Lines 127-133: the first format that matches, in the order of
\* fmt_z + fmt_no_tm; <<>> when none does.
FirstFormat(f1, f2, f3, f4) ==
    IF f1 # <<>> THEN f1
    ELSE IF f2 # <<>> THEN f2
    ELSE IF f3 # <<>> THEN f3
    ELSE IF f4 # <<>> THEN f4 \o <<0, 0, 0, 0>>
    ELSE <<>>

ParseDateResult(val, dt) ==
    IF contains(val, "CCYY-MM-DD") THEN Return(NoneVal)
    ELSE IF val # "" /\ dt = <<>> THEN Raise("ValueError", "Unable to parse date: " \o val)
    ELSE IF dt = <<>> THEN Return(NoneVal)
    ELSE Return(DateVal(dt))

parse_date(val) ==
    ParseDateResult(val, FirstFormat(StrpZ(val, 2, FALSE), StrpZ(val, 3, FALSE),
                                     StrpZ(val, 3, TRUE), StrpDate(val)))

-----------------------------------------------------------------------------
(* utils.dms2dec *)

\* s[-4:-2]
slice_m4_m2(s) ==
    LET L == Len(s)
        lo == IF L >= 4 THEN L - 4 ELSE 0
        hi == IF L >= 2 THEN L - 2 ELSE 0
    IN  SubSeq(s, lo + 1, hi)

\* The first k decimal digits of r / den (0 <= r < den) and the remainder
\* left after them: <<digits as a number, remainder>>.
RECURSIVE LongDiv(_, _, _)
LongDiv(r, den, k) ==
    IF k = 0 THEN <<0, r>>
    ELSE LET d == (10 * r) \div den
             rest == LongDiv((10 * r) % den, den, k - 1)
         IN  <<d * Pow10(k - 1) + rest[1], rest[2]>>

\* whole + f / 10^8 with the sign, f in 0..10^8 (10^8 carries).
Round8Carry(neg, whole, f) ==
    IF f = Pow10(8) THEN DegVal(IF neg THEN -1 ELSE 1, whole + 1, 0)
    ELSE DegVal(IF neg /\ (whole # 0 \/ f # 0) THEN -1 ELSE 1, whole, f)

\* q = <<the first 8 decimals, the remainder after them>>
Round8Up(neg, whole, q, den) ==
    Round8Carry(neg, whole, IF 2 * q[2] >= den THEN q[1] + 1 ELSE q[1])

Round8Abs(neg, a, den) == Round8Up(neg, a \div den, LongDiv(a % den, den, 8), den)

\* round(num / den, 8) for den > 0, as DegVal(sign, whole, frac8).
Round8(num, den) == Round8Abs(num < 0, IF num < 0 THEN -num ELSE num, den)

\* Lines 95-101 on deg and on minute/60 + sec/3600 = num / den.
\* "if deg < 0: frac = -frac": float('-0') is not < 0.
DmsCombine(d, num, den) ==
    IF num >= den
    THEN Raise("ValueError", " Unexpected value in MMSS. Unable to convert minute-seconds to decimal values")
    ELSE Return(Round8(d * den + (IF d < 0 THEN -num ELSE num), den))

\* Lines 92-95: the three float() calls, in the order they are made.
DmsFloats(deg, fmin, fsec) ==
    IF ~deg.ok THEN deg
    ELSE IF ~fmin.ok THEN fmin
    ELSE IF ~fsec.ok THEN fsec
    ELSE DmsCombine(deg.val.n[1],
                    fmin.val.n[1] * 60 * Pow10(fsec.val.n[2] - fmin.val.n[2]) + fsec.val.n[1],
                    3600 * Pow10(fsec.val.n[2]))

DmsSplit(ll) ==
    IF Len(ll) < 2 THEN Raise("IndexError", "list index out of range")
    ELSE DmsFloats(float(drop_last_n(ll[1], 4)),
                   float(slice_m4_m2(ll[1])),
                   float(last_n(ll[1], 2) \o "." \o ll[2]))

dms2dec(coord) == DmsSplit(split_sep(coord, "."))

-----------------------------------------------------------------------------
(* utils.dec2dms and utils.fmt_ll_dms_str.  A coordinate is a whole number  *)
(* of 10^-6 degrees; minutes and seconds are computed exactly.              *)

\* str(n) for n >= 0, and the same zero-padded to the width w.
RECURSIVE NatStr(_)
NatStr(n) == IF n < 10 THEN Ch("0123456789", n + 1) ELSE NatStr(n \div 10) \o Ch("0123456789", (n % 10) + 1)

RECURSIVE ZeroPad(_, _)
ZeroPad(s, w) == IF Len(s) >= w THEN s ELSE ZeroPad("0" \o s, w)

\* f'{n:+0wd}': the sign, then the digits zero-padded to w - 1.
FmtSigned(n, w) == IF n < 0 THEN "-" \o ZeroPad(NatStr(-n), w - 1) ELSE "+" \o ZeroPad(NatStr(n), w - 1)

\* f'{ss:.2f}' for ss = q / 10^6 seconds: h hundredths of a second.
FmtHundredths(h) == NatStr(h \div 100) \o "." \o ZeroPad(NatStr(h % 100), 2)
FmtSeconds(q) == FmtHundredths((q + 5000) \div 10000)

\* Lines 81-84 on |coord| = a: mm and ss from fl_mm = r / 10^6.
DmsMinSec(deg, r) == <<deg, r \div Pow10(6), (r % Pow10(6)) * 60>>

\* dec2dms(coord): <<deg, mm, ss * 10^6>>; math.trunc rounds towards zero.
dec2dms(coord) ==
    IF coord < 0
    THEN DmsMinSec(-((-coord) \div Pow10(6)), ((-coord) % Pow10(6)) * 60)
    ELSE DmsMinSec(coord \div Pow10(6), (coord % Pow10(6)) * 60)

\* Lines 109-114: val for the width w of the degrees.
FmtDms(dms, w) ==
    FmtSigned(dms[1], w) \o ZeroPad(NatStr(dms[2]), 2)
        \o (IF dms[3] < 10 * Pow10(6) THEN "0" ELSE "") \o FmtSeconds(dms[3])

fmt_ll_dms_str(lat, lon) == <<FmtDms(dec2dms(lat), 3), FmtDms(dec2dms(lon), 4)>>

-----------------------------------------------------------------------------
(* IGSSiteLogParser.__clean_data *)

DateLabels == {"Date Installed", "Date Removed", "Date Measured", "Calibration date", "Date Prepared"}
DateRangeLabels == {"Effective Dates", "Date"}
LatLonLabels == {"Latitude (N is +)", "Longitude (E is +)"}
MeterLabels == {"Height of the Monument", "Foundation Depth", "X coordinate (m)", "Y coordinate (m)",
                "Z coordinate (m)", "Elevation (m,ellips.)", "dx (m)", "dy (m)", "dz (m)"}
DegLabels == {"Alignment from True N", "Elevation Cutoff Setting"}

DateCons(h, t) ==
    IF ~h.ok THEN h
    ELSE IF ~t.ok THEN t
    ELSE Return(ListVal(<<h.val>> \o t.val.l))

\* [utils.parse_date(d) for d in dates]: the first exception ends the list.
RECURSIVE ParseDates(_)
ParseDates(dates) ==
    IF dates = <<>> THEN Return(ListVal(<<>>))
    ELSE DateCons(parse_date(Head(dates)), ParseDates(Tail(dates)))

\* dates += [''] * (2 - len(dates))
PadDates(dates) == IF Len(dates) < 2 THEN dates \o [i \in 1..(2 - Len(dates)) |-> ""] ELSE dates

clean_data(key, val) ==
    IF key \in DateLabels THEN parse_date(val)
    ELSE IF key \in DateRangeLabels THEN ParseDates(PadDates(split_sep(val, "/")))
    ELSE IF key = "Antenna Type"
         THEN Return(ListVal(<<StrVal(strip(drop_last_n(val, 4))), StrVal(strip(last_n(val, 4)))>>))
    ELSE IF key \in LatLonLabels THEN dms2dec(val)
    ELSE IF key \in MeterLabels THEN float(strip(replace_del(val, "m")))
    ELSE IF key \in DegLabels THEN Return(StrVal(strip(replace_del(val, "deg"))))
    ELSE IF key = "Accuracy (mm)" THEN float(strip(replace_del(val, "mm")))
    ELSE Return(StrVal(val))

-----------------------------------------------------------------------------
(* The parser.                                                             *)

labels_no_colon == {"Approximate Position (ITRF)",
                    "Differential Components from GNSS Marker to the tied monument (ITRS)",
                    "Primary Contact", "Secondary Contact", "Hardcopy on File",
                    "Antenna Graphics with Dimensions"}

\* re.search('^\d+.\s+', line)
MatchSection(line) ==
    \E n \in 1..(Len(line) - 2) :
        /\ \A i \in 1..n : Ch(line, i) \in Digits
        /\ Ch(line, n + 2) \in Whitespace

\* re.search('^[\d]+.[\d]+', line)
MatchSubsection(line) ==
    \E n \in 1..(Len(line) - 2) :
        /\ \A i \in 1..n : Ch(line, i) \in Digits
        /\ Ch(line, n + 2) \in Digits

\* str(x) of a string-or-None inside an f-string
Show(s) == IF s = None THEN "None" ELSE s

\* An OrderedDict is a sequence of entries [k, ...] in insertion order.
HasKey(od, k) == \E i \in 1..Len(od) : od[i].k = k
IndexOf(od, k) == CHOOSE i \in 1..Len(od) : od[i].k = k

\* content[key][subkey] = v, after "if key not in content: content[key] = {}"
EnsureKey(od, k) == IF HasKey(od, k) THEN od ELSE Append(od, [k |-> k, d |-> <<>>])
SetField(od, k, sk, v) ==
    [od EXCEPT ![IndexOf(od, k)].d = (sk :> v) @@ od[IndexOf(od, k)].d]

VARIABLES
    self_content,   \* IGSSiteLogParser.content
    loads,          \* number of loadFromFile calls so far
    pc,             \* "idle": no call in progress; "scan": inside the for loop
    outcome,        \* how the last call ended: "none", "returned" or the exception raised
    excmsg,         \* the message of that exception
    file,           \* the physical lines of the file the loop has passed
    stopped,        \* the loop was left by "break"
    skipsection, sectionnum, subsectionnum, content, subkey, errmsgs, warnings, prefx,
    vocab,          \* the lines a file is made of
    maxloads,       \* the number of loadFromFile calls of the run
    ll,             \* utils: the <<lat, lon>> given to fmt_ll_dms_str, in 10^-6 degrees
    ll_dms,         \* utils: the strings fmt_ll_dms_str returned, or those dms2dec is given
    decdeg          \* utils: the outcomes of dms2dec on these strings

locals == <<skipsection, sectionnum, subsectionnum, content, subkey, errmsgs, warnings, prefx>>
utilvars == <<ll, ll_dms, decdeg>>
vars == <<self_content, loads, pc, outcome, excmsg, file, stopped, locals, vocab, maxloads, utilvars>>

\* The local variables of __parseFile as one record.
Locals ==
    [skipsection |-> skipsection, sectionnum |-> sectionnum, subsectionnum |-> subsectionnum,
     content |-> content, subkey |-> subkey, errmsgs |-> errmsgs, warnings |-> warnings,
     prefx |-> prefx]

\* Lines 37-44 with skipSection = False at line 37.
InitLocals_NoSkip ==
    [skipsection |-> FALSE, sectionnum |-> None, subsectionnum |-> None, content |-> <<>>,
     subkey |-> None, errmsgs |-> <<>>, warnings |-> <<>>, prefx |-> ""]

\* Lines 37-44: the locals at the start of __parseFile.
InitLocals ==
    [skipsection |-> TRUE, sectionnum |-> None, subsectionnum |-> None, content |-> <<>>,
     subkey |-> None, errmsgs |-> <<>>, warnings |-> <<>>, prefx |-> ""]

\* Line 83 with a line without a colon taken as a value of the last label.
LineData_ColonlessAsValue(text) == IF contains(text, ":") THEN split_sep1(text, ":") ELSE <<"", text>>

\* Line 74 and line 83: the label/value split of a heading's remainder or
\* of a content line.
LineData(text) == split_sep1(text, ":")

\* Line 80 with 'Hardcopy on File' missing from the list of labels.
MissingColon_ShortList(line) ==
    /\ ~contains(line, ":")
    /\ line \notin {"Approximate Position (ITRF)",
                     "Differential Components from GNSS Marker to the tied monument (ITRS)",
                     "Primary Contact", "Secondary Contact", "Antenna Graphics with Dimensions"}

\* Line 80: the line is reported as lacking a colon.
MissingColon(line) == ~contains(line, ":") /\ line \notin labels_no_colon

\* Line 118 with == in place of startswith.
IsPlaceholder_Exact(val) == val = "("

\* Line 118: the value is a default (placeholder) value.
IsPlaceholder(val) == startswith(val, "(")

\* Line 145: the key and the suffix of a raw key.
KeySuffix(k) == rsplit_sep1(k, ".")

\* Lines 58-83: the classification of a stripped, non-blank line.  ctl is
\* "go" (fall through to line 85), "continue", or "ValueError" (the tuple
\* assignment of a one-token heading fails before it assigns anything).
Classify(st, line) ==
    LET toks == split_ws1(line)
        same == [sectionnum |-> st.sectionnum, subsectionnum |-> st.subsectionnum,
                 skipsection |-> st.skipsection, linedata |-> <<>>, warn |-> FALSE, ctl |-> "continue"]
    IN  IF MatchSection(line)
        THEN IF Len(toks) < 2 THEN [same EXCEPT !.ctl = "ValueError"]
             ELSE [same EXCEPT !.sectionnum = toks[1], !.subsectionnum = None,
                               !.skipsection = FALSE, !.ctl = "go"]
        ELSE IF MatchSubsection(line)
        THEN IF Len(toks) < 2 THEN [same EXCEPT !.ctl = "ValueError"]
             ELSE IF endswith(toks[1], "x")
                  THEN [same EXCEPT !.subsectionnum = toks[1], !.skipsection = TRUE]
                  ELSE [same EXCEPT !.subsectionnum = toks[1], !.skipsection = FALSE,
                                    !.linedata = LineData(toks[2]), !.ctl = "go"]
        ELSE IF st.skipsection THEN same
             ELSE [same EXCEPT !.linedata = LineData(line),
                               !.warn = MissingColon(line),
                               !.ctl = "go"]

\* Line 86 with the section compared to '13' (the numeral without its dot).
IsBreak_NoDot(sec, linedata) ==
    sec = "13" /\ linedata # <<>> /\ startswith(linedata[1], "Antenna Graphics with Dimensions")

\* Line 86: the condition of the break.
IsBreak(sec, linedata) ==
    sec = "13." /\ linedata # <<>> /\ startswith(linedata[1], "Antenna Graphics with Dimensions")

\* Lines 93-103 without the else branch of line 102: the prefix is kept
\* outside section 11.
NewPrefx_Kept(sec, linedata, old) ==
    IF linedata # <<>>
    THEN IF sec # "11." THEN old
         ELSE IF linedata[1] = "Primary Contact" THEN "primary_"
         ELSE IF linedata[1] = "Secondary Contact" THEN "secondary_"
         ELSE IF startswith(linedata[1], "Additional") THEN ""
         ELSE old
    ELSE old

\* Lines 93-103: the contact prefix after the line.
NewPrefx(sec, linedata, old) ==
    IF sec = "11."
    THEN IF linedata # <<>>
         THEN IF linedata[1] = "Primary Contact" THEN "primary_"
              ELSE IF linedata[1] = "Secondary Contact" THEN "secondary_"
              ELSE IF startswith(linedata[1], "Additional") THEN ""
              ELSE old
         ELSE old
    ELSE ""

\* Lines 125-127 without the space after the existing value.
PrevVal_NoSpace(od, key, sk) ==
    LET d == od[IndexOf(od, key)].d
    IN  IF sk \in DOMAIN d
        THEN IF d[sk].t = "str" THEN Return(StrVal(d[sk].s))
             ELSE Raise("TypeError", "unsupported operand type(s) for +")
        ELSE Return(StrVal(""))

\* Line 125-127: prevval when the label is already stored.  A stored value
\* that is not a str cannot be added to ' ': TypeError.
PrevVal(od, key, sk) ==
    LET d == od[IndexOf(od, key)].d
    IN  IF sk \in DOMAIN d
        THEN IF d[sk].t = "str" THEN Return(StrVal(d[sk].s \o " "))
             ELSE Raise("TypeError", "unsupported operand type(s) for +")
        ELSE Return(StrVal(""))

\* Lines 131-136: the cleaned value is stored, or the failure recorded.
StoreCleaned(st, key, sk, full, cleaned) ==
    IF ~cleaned.ok
    THEN [st |-> [st EXCEPT !.errmsgs =
                    Append(@, "Invalid value found in section: " \o Show(key) \o ", " \o Show(sk)
                              \o ": " \o full \o ". Error message: " \o cleaned.msg)],
          exc |-> ""]
    ELSE IF cleaned.val = NoneVal THEN [st |-> st, exc |-> ""]
    ELSE [st |-> [st EXCEPT !.content = SetField(st.content, key, sk, cleaned.val)], exc |-> ""]

\* Lines 125-132: the value is appended to the one already stored.
StoreAppend(st, key, sk, prev, val) ==
    IF ~prev.ok THEN [st |-> st, exc |-> prev.exc]
    ELSE StoreCleaned(st, key, sk, prev.val.s \o val, clean_data(sk, prev.val.s \o val))

\* Lines 116-129: nothing more for an empty or a default value; otherwise
\* the sub-dict of the key is made when it is missing.
StoreValue(st, key, sk, val) ==
    IF val = "" \/ IsPlaceholder(val) THEN [st |-> st, exc |-> ""]
    ELSE StoreAppend([st EXCEPT !.content = EnsureKey(@, key)], key, sk,
                     PrevVal(EnsureKey(st.content, key), key, sk), val)

\* Lines 110-113: the key, and the subkey the line sets or reuses.
StoreLabel(st, key, sk, val) == StoreValue([st EXCEPT !.subkey = sk], key, sk, val)

\* Lines 105-136: the label/value pair of the line is stored.
Store(st, linedata) ==
    IF Len(linedata) # 2 THEN [st |-> st, exc |-> ""]
    ELSE StoreLabel(st,
                    IF Truthy(st.subsectionnum) THEN st.subsectionnum ELSE st.sectionnum,
                    IF strip(linedata[1]) # "" THEN st.prefx \o strip(linedata[1]) ELSE st.subkey,
                    strip(linedata[2]))

\* Lines 85-136, for a line that was classified without "continue": the
\* break, the contact prefix, the store.
LoopGo(st1, c, oldprefx) ==
    IF IsBreak(c.sectionnum, c.linedata) THEN [st |-> st1, brk |-> TRUE, exc |-> ""]
    ELSE IF c.linedata = <<>>
         THEN [st |-> [st1 EXCEPT !.prefx = NewPrefx(c.sectionnum, c.linedata, oldprefx)],
               brk |-> FALSE, exc |-> ""]
    ELSE [brk |-> FALSE] @@
         Store([st1 EXCEPT !.prefx = NewPrefx(c.sectionnum, c.linedata, oldprefx)], c.linedata)

\* Lines 58-139 on the classification c of the line.
LoopClassified(st, line, c) ==
    IF c.ctl = "ValueError"
    THEN [st |-> [st EXCEPT !.errmsgs =
                    Append(@, "not enough values to unpack (expected 2, got 1) on line " \o line)],
          brk |-> FALSE, exc |-> ""]
    ELSE IF c.ctl = "continue"
         THEN [st |-> [st EXCEPT !.sectionnum = c.sectionnum, !.subsectionnum = c.subsectionnum,
                                 !.skipsection = c.skipsection],
               brk |-> FALSE, exc |-> ""]
    ELSE LoopGo([st EXCEPT !.sectionnum = c.sectionnum, !.subsectionnum = c.subsectionnum,
                           !.skipsection = c.skipsection,
                           !.warnings = IF c.warn THEN Append(@, line) ELSE @],
                c, st.prefx)

LoopStripped(st, line) ==
    IF line = "" THEN [st |-> st, brk |-> FALSE, exc |-> ""]
    ELSE LoopClassified(st, line, Classify(st, line))

\* Lines 51-139: one iteration of the loop on a physical line.  The result
\* is the locals after it, whether the loop was left by break, and the
\* exception that left __parseFile ("" when none did).
LoopBody(st, raw) == LoopStripped(st, strip(raw))

\* An entry of content2: a dict (t = "dict", d), a list of dicts
\* (t = "list", l) or the warning text (t = "str", s).
DictEntry(k, d) == [k |-> k, t |-> "dict", d |-> d, l |-> <<>>, s |-> ""]
ListEntry(k, l) == [k |-> k, t |-> "list", d |-> <<>>, l |-> l, s |-> ""]
TextEntry(k, s) == [k |-> k, t |-> "str", d |-> <<>>, l |-> <<>>, s |-> s]

\* Lines 145-152: one iteration of step 2 on the entry e of content.
Step2Entry(acc, e) ==
    LET parts == KeySuffix(e.k)
        key == parts[1]
        i == IndexOf(acc.od, key)
    IN  IF acc.exc # "" THEN acc
        ELSE IF e.k = None THEN [acc EXCEPT !.exc = "AttributeError"]
        ELSE IF Len(parts) # 2 THEN [acc EXCEPT !.exc = "ValueError"]
        ELSE IF parts[2] # ""
             THEN IF ~HasKey(acc.od, key)
                  THEN [acc EXCEPT !.od = Append(@, ListEntry(key, <<e.d>>))]
                  ELSE IF acc.od[i].t = "list"
                       THEN [acc EXCEPT !.od[i].l = Append(@, e.d)]
                       ELSE [acc EXCEPT !.exc = "AttributeError"]
        ELSE IF HasKey(acc.od, key)
             THEN [acc EXCEPT !.od[i] = DictEntry(key, e.d)]
             ELSE [acc EXCEPT !.od = Append(@, DictEntry(key, e.d))]

\* Lines 143-152: step 2 over the entries of content, in order.
RECURSIVE Step2(_, _)
Step2(acc, od) == IF od = <<>> THEN acc ELSE Step2(Step2Entry(acc, Head(od)), Tail(od))

WarningText(ws) ==
    "Did not find a colon separator on line(s). Ignoring these lines:\n    " \o join("\n    ", ws)

\* Lines 154-159 on the outcome s2 of step 2.
FinishStep2(st, s2) ==
    IF s2.exc # "" THEN [exc |-> s2.exc, msg |-> "", content2 |-> <<>>]
    ELSE IF st.errmsgs # <<>>
         THEN [exc |-> "ParseException", msg |-> join("Parsing error: \n", st.errmsgs),
               content2 |-> <<>>]
    ELSE IF st.warnings # <<>>
         THEN [exc |-> "", msg |-> "",
               content2 |-> Append(s2.od, TextEntry("warning", WarningText(st.warnings)))]
    ELSE [exc |-> "", msg |-> "", content2 |-> s2.od]

\* Lines 141-159: everything after the loop.  The result is content2 as
\* returned, or the exception raised instead.
Finish(st) == FinishStep2(st, Step2([od |-> <<>>, exc |-> ""], st.content))

-----------------------------------------------------------------------------
(* Actions.                                                                *)

SetLocals(st) ==
    /\ skipsection' = st.skipsection
    /\ sectionnum' = st.sectionnum
    /\ subsectionnum' = st.subsectionnum
    /\ content' = st.content
    /\ subkey' = st.subkey
    /\ errmsgs' = st.errmsgs
    /\ warnings' = st.warnings
    /\ prefx' = st.prefx

\* __init__
InitParser ==
    /\ self_content = <<>>
    /\ loads = 0
    /\ pc = "idle"
    /\ outcome = "none"
    /\ excmsg = ""
    /\ file = <<>>
    /\ stopped = FALSE
    /\ skipsection = InitLocals.skipsection
    /\ sectionnum = InitLocals.sectionnum
    /\ subsectionnum = InitLocals.subsectionnum
    /\ content = InitLocals.content
    /\ subkey = InitLocals.subkey
    /\ errmsgs = InitLocals.errmsgs
    /\ warnings = InitLocals.warnings
    /\ prefx = InitLocals.prefx

\* loadFromFile is called: __parseFile starts on a file.
LoadFromFile ==
    /\ pc = "idle"
    /\ loads < maxloads
    /\ loads' = loads + 1
    /\ pc' = "scan"
    /\ outcome' = "none"
    /\ excmsg' = ""
    /\ file' = <<>>
    /\ stopped' = FALSE
    /\ SetLocals(InitLocals)
    /\ UNCHANGED <<self_content, vocab, maxloads, utilvars>>

\* The outcome r of an iteration of the loop becomes the state.  An
\* exception that leaves the loop ends loadFromFile without an assignment
\* to self.content.
AfterLine(r) ==
    /\ SetLocals(r.st)
    /\ stopped' = r.brk
    /\ pc' = IF r.exc # "" THEN "idle" ELSE "scan"
    /\ outcome' = IF r.exc # "" THEN r.exc ELSE outcome
    /\ excmsg' = excmsg

\* The file has one more line.  Before the break it is the next iteration
\* of the loop; after the break it is a line the loop never reads.
ReadLine ==
    /\ pc = "scan"
    /\ Len(file) < MaxLines
    /\ \E raw \in vocab :
        /\ file' = Append(file, raw)
        /\ IF stopped
           THEN UNCHANGED <<locals, stopped, pc, outcome, excmsg>>
           ELSE AfterLine(LoopBody(Locals, raw))
    /\ UNCHANGED <<self_content, loads, vocab, maxloads, utilvars>>

\* The outcome r of the code after the loop becomes the state.
AfterFinish(r) ==
    /\ outcome' = IF r.exc # "" THEN r.exc ELSE "returned"
    /\ excmsg' = r.msg
    /\ self_content' = IF r.exc # "" THEN self_content ELSE r.content2

\* The file has no more lines: step 2, the warning and the errors, then
\* the raise, or the return and "self.content = ...".
EndOfFile ==
    /\ pc = "scan"
    /\ AfterFinish(Finish(Locals))
    /\ pc' = "idle"
    /\ UNCHANGED <<loads, file, stopped, locals, vocab, maxloads, utilvars>>

Next == LoadFromFile \/ ReadLine \/ EndOfFile

\* utils.fmt_ll_dms_str(lat, lon) is called.
FmtLlDmsStr ==
    /\ ll # <<>> /\ ll_dms = <<>>
    /\ ll_dms' = fmt_ll_dms_str(ll[1], ll[2])
    /\ UNCHANGED <<self_content, loads, pc, outcome, excmsg, file, stopped, locals, vocab, maxloads,
                   ll, decdeg>>

\* utils.dms2dec is called on each of the strings.
Dms2Dec ==
    /\ ll_dms # <<>> /\ decdeg = <<>>
    /\ decdeg' = [i \in 1..Len(ll_dms) |-> dms2dec(ll_dms[i])]
    /\ UNCHANGED <<self_content, loads, pc, outcome, excmsg, file, stopped, locals, vocab, maxloads,
                   ll, ll_dms>>

NextDms == FmtLlDmsStr \/ Dms2Dec

-----------------------------------------------------------------------------
(* Specifications.  A run loads files made of the lines of one of the sets *)
(* below; each set holds the lines that a group of properties is about.    *)

\* No call of the functions of utils is made in a run of the parser.
NoUtilCall == ll = <<>> /\ ll_dms = <<>> /\ decdeg = <<>>

InitOn(lines, n) == InitParser /\ vocab = lines /\ maxloads = n /\ NoUtilCall

LinesSkip ==
    {"3.   Receiver Information",
     "3.1  Receiver Type : TRIMBLE",
     "3.x  Receiver Type : LEICA",
     "8.1.x Humidity Sensor Model : VAISALA",
     "10.x Date : 2020-01-01",
     "Satellite System : GPS",
     "Notes : (multiple lines)"}

SpecSkip == InitOn(LinesSkip, 1) /\ [][Next]_vars

LinesStop ==
    {"13.  More Information",
     "13.1.x Site Map : (Y or URL)",
     "13.2 Site Diagram : Y",
     "Antenna Graphics with Dimensions",
     "Antenna Graphics with Dimensions : (insert text graphic)",
     "Notes : hello",
     "Accuracy (mm) : abc"}

SpecStop == InitOn(LinesStop, 1) /\ [][Next]_vars

LinesErr ==
    {"1.   Site Identification",
     "Accuracy (mm) : abc",
     "dx (m) : 1.5 m",
     "Notes : ok",
     "Date Installed : 2020-01-01",
     "Antenna Type : ASH701945C_M    SCIS",
     " : more"}

SpecErr == InitOn(LinesErr, 1) /\ [][Next]_vars

LinesSect ==
    {"1.   Site Identification",
     "3.   Receiver Information",
     "Site Name : Pasadena",
     "3.1  Receiver Type : TRIMBLE",
     "3.2  Receiver Type : LEICA",
     "8.1.1 Manufacturer : VAISALA",
     "8.1.2 Manufacturer : PAROS"}

SpecSect == InitOn(LinesSect, 1) /\ [][Next]_vars

LinesCont ==
    {"2.   Site Location Information",
     "Notes : first",
     "Notes :",
     " : second",
     ": (multiple lines)",
     ": 5 deg",
     "Alignment from True N : 10 deg",
     "City or Town : Pasadena"}

SpecCont == InitOn(LinesCont, 1) /\ [][Next]_vars

LinesWarn ==
    {"2.   Site Location Information",
     "City or Town : Pasadena",
     "Random text no colon",
     "more text",
     "Hardcopy on File",
     "8.1.x Humidity Sensor Model : (A20)",
     "Accuracy (mm) : abc"}

SpecWarn == InitOn(LinesWarn, 1) /\ [][Next]_vars

LinesPlace ==
    {"3.   Receiver Information",
     "3.1  Receiver Type : (A20, from rcvr_ant.tab)",
     "Date Installed : (CCYY-MM-DDThh:mmZ)",
     "Elevation (m,ellips.) : (F7.1)",
     "Notes : (multiple lines)",
     " : (continued)",
     "Notes : real",
     "Date Installed : 2020-01-01"}

SpecPlace == InitOn(LinesPlace, 1) /\ [][Next]_vars

LinesContact ==
    {"11.  On-Site, Point of Contact Agency Information",
     "12.  Responsible Agency",
     "Primary Contact",
     "Secondary Contact",
     "Contact Name : Bob",
     "Additional Information : none",
     "11.1.x Contact Name : (x)"}

SpecContact == InitOn(LinesContact, 1) /\ [][Next]_vars

LinesReload ==
    {"1.   Site Identification",
     "Site Name : Pasadena",
     "Site Name : Goldstone",
     "Accuracy (mm) : abc"}

SpecReload == InitOn(LinesReload, MaxLoads) /\ [][Next]_vars

\* Coordinates in 10^-6 degrees: whole degrees plus a fraction.  The
\* fractions hold a quarter and a half of a degree, values within one
\* degree of zero, and values whose seconds are 59.995 or more (999999,
\* 16666) or between 9.995 and 10 (502777).
Fractions == {0, 250000, 500000, 2000, 16666, 502777, 999999}
LatDegrees == {0, 45, 89}
LonDegrees == {0, 100, 179}

GridOf(degs, top) ==
    {sg * (d * Pow10(6) + f) : sg \in {-1, 1}, d \in degs, f \in Fractions}
        \cup {-top * Pow10(6), top * Pow10(6)}

InitDms ==
    /\ InitParser /\ vocab = {} /\ maxloads = 0
    /\ ll \in GridOf(LatDegrees, 90) \X GridOf(LonDegrees, 180)
    /\ ll_dms = <<>> /\ decdeg = <<>>

SpecDms == InitDms /\ [][NextDms]_vars

LinesDate ==
    {"3.   Receiver Information",
     "Date Installed : 2020-01-01",
     "Date Installed : 2020-06-30T10:30:15Z",
     "Date Removed : CCYY-MM-DD",
     "Date Removed : 2020-01-02T10:30Z",
     "Date Prepared : 2020-01-02T10:30:15.5Z",
     "Date Measured : soon",
     "Calibration date : 2021-02-30"}

SpecDate == InitOn(LinesDate, 1) /\ [][Next]_vars

LinesLone ==
    {"3.   Receiver Information",
     "3.1  Receiver Type : TRIMBLE",
     "3.2",
     "8.1.1",
     "Receiver Type : LEICA",
     "Notes : n"}

SpecLone == InitOn(LinesLone, 1) /\ [][Next]_vars

LinesFrame ==
    {"8.   Meteorological Instrumentation",
     "8.1.1 Humidity Sensor Model : HMP",
     "8.1.x Humidity Sensor Model : VAISALA",
     "3.x  Receiver Type : LEICA",
     "Notes : hello",
     "Random text no colon",
     "Accuracy (mm) : abc"}

SpecFrame == InitOn(LinesFrame, 1) /\ [][Next]_vars

LinesCarry ==
    {"11.  On-Site, Point of Contact Agency Information",
     "12.  Responsible Agency",
     "Primary Contact",
     "Contact Name : Bob",
     "Agency : USGS",
     " : more"}

SpecCarry == InitOn(LinesCarry, 1) /\ [][Next]_vars

LinesRange ==
    {"6.   Frequency Standard",
     "6.1  Standard Type : INTERNAL",
     "Effective Dates : 2020-01-01",
     "Effective Dates : 2020-01-01/CCYY-MM-DD",
     "Date : 2020-01-01/2020-02-01",
     "Date : 2020-01-01/2020-02-01/2020-03-01",
     "Date : 2020-01-01/bad"}

SpecRange == InitOn(LinesRange, 1) /\ [][Next]_vars

\* Digit strings D[D]DMMSS.SS with a valid MMSS part, some with degree
\* digits that are all zero.
DegreeDigits == {"00", "05", "45", "89", "000", "120", "179"}
MinuteDigits == {"00", "30", "59"}
SecondDigits == {"00.00", "30.50", "59.99"}
DmsDigits == {d \o m \o sec : d \in DegreeDigits, m \in MinuteDigits, sec \in SecondDigits}

InitSign ==
    /\ InitParser /\ vocab = {} /\ maxloads = 0
    /\ ll = <<>> /\ decdeg = <<>>
    /\ ll_dms \in {<<"+" \o d, "-" \o d>> : d \in DmsDigits}

SpecSign == InitSign /\ [][Dms2Dec]_vars

-----------------------------------------------------------------------------
(* Properties.  The lines read so far are in "file"; what a property says  *)
(* about earlier lines is stated on them.                                  *)

\* The fields of a dict of dicts: <<section key, label, value>>.
FieldsOf(od) == UNION {{<<od[i].k, sk, od[i].d[sk]>> : sk \in DOMAIN od[i].d} : i \in 1..Len(od)}

\* The first blank-separated token of a line.
FirstToken(raw) == LET t == split_ws1(strip(raw)) IN IF t = <<>> THEN "" ELSE t[1]

\* A section or subsection numeral: digits and dots, starting with a digit
\* and with at least one dot ('3.', '3.1', '8.1.1').
PlainNumeral(tok) ==
    /\ Len(tok) >= 2
    /\ Ch(tok, 1) \in Digits
    /\ \A i \in 1..Len(tok) : Ch(tok, i) \in Digits \cup {"."}
    /\ contains(tok, ".")

\* A subsection numeral that ends in the literal x ('3.x', '10.x', '8.1.x').
XNumeral(tok) == endswith(tok, ".x") /\ PlainNumeral(drop_last_n(tok, 1))

IsHeadingLine(raw) == PlainNumeral(FirstToken(raw)) \/ XNumeral(FirstToken(raw))

\* The last heading line of f is an 'x' subsection heading.
InXBlock(f) ==
    \E i \in 1..Len(f) :
        /\ XNumeral(FirstToken(f[i]))
        /\ \A j \in (i + 1)..Len(f) : ~IsHeadingLine(f[j])

\* C1: once an 'x' subsection heading has been read, that line and every
\* line up to the next heading add no field to the record.
C1_XBlockAddsNoField == [][InXBlock(file') => FieldsOf(content') = FieldsOf(content)]_vars

\* The section, subsection and skip flag after the first n lines of f, by
\* the classification of the lines alone (lines 58-83).
RECURSIVE HeadScan(_, _)
HeadScan(f, n) ==
    IF n = 0
    THEN [sectionnum |-> None, subsectionnum |-> None, skipsection |-> TRUE]
    ELSE LET p == HeadScan(f, n - 1)
             c == Classify(p, strip(f[n]))
         IN  IF strip(f[n]) = "" THEN p
             ELSE [sectionnum |-> c.sectionnum, subsectionnum |-> c.subsectionnum,
                   skipsection |-> c.skipsection]

\* The label of a line: the text before the first colon of a content line,
\* or of what follows the numeral of a subsection heading.  The title of a
\* main section heading is not a label.
LabelText(raw) ==
    LET l == strip(raw)
        t == split_ws1(l)
    IN  IF l = "" \/ MatchSection(l) THEN ""
        ELSE IF IsHeadingLine(l) THEN (IF Len(t) = 2 THEN split_sep1(t[2], ":")[1] ELSE "")
        ELSE split_sep1(l, ":")[1]

AGDLabel(raw) == startswith(LabelText(raw), "Antenna Graphics with Dimensions")

\* A line with an 'Antenna Graphics with Dimensions' label has been read
\* while the current section was '13.'.
Marked(f) == \E i \in 1..Len(f) : AGDLabel(f[i]) /\ HeadScan(f, i).sectionnum = "13."

\* The same, and no skipped 'x' subsection was active at that line.
MarkedUnskipped(f) ==
    \E i \in 1..Len(f) :
        AGDLabel(f[i]) /\ HeadScan(f, i).sectionnum = "13." /\ ~HeadScan(f, i).skipsection

Frozen == content' = content /\ warnings' = warnings /\ errmsgs' = errmsgs /\ outcome' \notin {"TypeError"}

\* C2 as stated: after an 'Antenna Graphics with Dimensions' label in
\* section 13, no later line adds a field, a warning or an error, also when
\* a skipped 'x' subsection is active at that line.
C2_StopsAfterMarker == [][(pc = "scan" /\ Marked(file)) => Frozen]_vars

\* C2 amended: the same when no skipped 'x' subsection is active at the
\* 'Antenna Graphics with Dimensions' line.
C2_StopsAfterUnskippedMarker == [][(pc = "scan" /\ MarkedUnskipped(file)) => Frozen]_vars

\* A well-formed 'label: value' line, a heading with a field and a line
\* with a value that cannot be cleaned have followed the marker.
C2_Witness ==
    /\ pc = "scan" /\ stopped /\ MarkedUnskipped(file)
    /\ \E i \in 1..Len(file) :
        /\ MarkedUnskipped(SubSeq(file, 1, i))
        /\ \E j \in (i + 1)..Len(file) : file[j] \in {"Notes : hello", "13.2 Site Diagram : Y", "Accuracy (mm) : abc"}
    /\ content = <<>>

\* The call of loadFromFile has ended.
Ended == pc = "idle" /\ loads > 0

\* Every message of ms occurs in text, one after the other.
RECURSIVE ContainsInOrder(_, _)
ContainsInOrder(text, ms) ==
    IF ms = <<>> THEN TRUE
    ELSE \E i \in 1..(Len(text) - Len(ms[1]) + 1) :
            /\ SubSeq(text, i, i + Len(ms[1]) - 1) = ms[1]
            /\ \A j \in 1..(i - 1) : SubSeq(text, j, j + Len(ms[1]) - 1) # ms[1]
            /\ ContainsInOrder(SubSeq(text, i + Len(ms[1]), Len(text)), Tail(ms))

\* C3: when the cleaning of some values failed, loadFromFile ends with a
\* ParseException whose message holds every failure message, in file order.
C3_AggregateThenFail ==
    (Ended /\ errmsgs # <<>>) => (outcome = "ParseException" /\ ContainsInOrder(excmsg, errmsgs))

\* C4: loadFromFile returns, or raises ParseException after the whole file
\* was scanned; no line ends it with another exception.
C4_ReturnsOrParseException ==
    /\ outcome \in {"none", "returned", "ParseException"}
    /\ Ended => outcome \in {"returned", "ParseException"}

\* A raw key without a subsection suffix ('1.'), and the final key of a raw
\* key (the text before its last dot).
Bare(k) == endswith(k, ".")
GroupOf(k) == SubSeq(k, 1, LastIn(k, {"."}) - 1)

\* The field mappings of the raw keys with a suffix that share the final
\* key K, in the order of od.
RECURSIVE Members(_, _)
Members(od, K) ==
    IF od = <<>> THEN <<>>
    ELSE (IF ~Bare(Head(od).k) /\ GroupOf(Head(od).k) = K THEN <<Head(od).d>> ELSE <<>>)
         \o Members(Tail(od), K)

\* C5: after a successful load a bare section numeral 'N.' is key 'N' with
\* its field mapping, and the raw keys with a subsection suffix that share
\* a prefix are one key with the list of their field mappings, in the order
\* of first appearance.
C5_Restructured ==
    (Ended /\ outcome = "returned") =>
        /\ \A a, b \in 1..Len(self_content) : self_content[a].k = self_content[b].k => a = b
        /\ \A i \in 1..Len(content) :
            \E e \in 1..Len(self_content) :
                /\ self_content[e].k = GroupOf(content[i].k)
                /\ IF Bare(content[i].k)
                   THEN self_content[e].t = "dict" /\ self_content[e].d = content[i].d
                   ELSE /\ self_content[e].t = "list"
                        /\ self_content[e].l = Members(content, GroupOf(content[i].k))

\* The last line read, the key of the current section or subsection, and
\* the value of a field of a dict of dicts.
LastLine(f) == f[Len(f)]
CurKey == IF Truthy(subsectionnum) THEN subsectionnum ELSE sectionnum
HasField(od, k, sk) == \E x \in FieldsOf(od) : x[1] = k /\ x[2] = sk
FieldVal(od, k, sk) == (CHOOSE x \in FieldsOf(od) : x[1] = k /\ x[2] = sk)[3]

\* A step that processes one more line: the scan is on, it has not met the
\* end marker and no 'x' subsection is skipped.
ReadsLine == pc = "scan" /\ ~stopped /\ Len(file') = Len(file) + 1
ReadsUnskipped == ReadsLine /\ ~skipsection

\* A line whose label part is empty: its text starts with ':'.  Its text
\* is what follows the colon, trimmed.
IsContinuation(raw) == startswith(strip(raw), ":")
ContText(raw) == strip(SubSeq(strip(raw), 2, Len(strip(raw))))

\* The labels whose values are cleaned into something other than the text.
CleanedLabels ==
    {"Date Installed", "Date Removed", "Date Measured", "Calibration date", "Date Prepared",
     "Effective Dates", "Date", "Antenna Type", "Latitude (N is +)", "Longitude (E is +)",
     "Height of the Monument", "Foundation Depth", "X coordinate (m)", "Y coordinate (m)",
     "Z coordinate (m)", "Elevation (m,ellips.)", "dx (m)", "dy (m)", "dz (m)",
     "Alignment from True N", "Elevation Cutoff Setting", "Accuracy (mm)"}

\* The text t of a continuation line is stored under the label of the
\* scan: appended after one space to a string already stored in the
\* current section or subsection, or as the value when there is none.
ContinuationStored(t) ==
    /\ subkey' = subkey
    /\ HasField(content', CurKey, subkey)
    /\ IF HasField(content, CurKey, subkey)
       THEN FieldVal(content, CurKey, subkey).t = "str" =>
                FieldVal(content', CurKey, subkey) = StrVal(FieldVal(content, CurKey, subkey).s \o " " \o t)
       ELSE FieldVal(content', CurKey, subkey) = StrVal(t)

ColonlessAfterLabelled ==
    /\ ReadsUnskipped
    /\ file # <<>>
    /\ contains(LastLine(file), ":") /\ strip(LabelText(LastLine(file))) # ""
    /\ strip(LastLine(file')) # ""
    /\ ~contains(LastLine(file'), ":") /\ ~IsHeadingLine(LastLine(file'))
    /\ HasField(content, CurKey, subkey) /\ FieldVal(content, CurKey, subkey).t = "str"

\* C7 as stated: a line without a colon directly after a labelled line is
\* appended after one space to the value stored for that label.
C7_ColonlessAppended ==
    [][ColonlessAfterLabelled =>
          /\ HasField(content', CurKey, subkey)
          /\ FieldVal(content', CurKey, subkey) =
                StrVal(FieldVal(content, CurKey, subkey).s \o " " \o strip(LastLine(file')))]_vars

\* The labels that may stand on a line without a colon.
AllowListed ==
    {"Approximate Position (ITRF)",
     "Differential Components from GNSS Marker to the tied monument (ITRS)",
     "Primary Contact", "Secondary Contact", "Hardcopy on File",
     "Antenna Graphics with Dimensions"}

\* C7 amended: a line without a colon directly after a labelled line
\* changes no field and no label; it is only added to the missing-colon
\* lines, unless it is one of the allow-listed labels.
C7_ColonlessIgnored ==
    [][ColonlessAfterLabelled =>
          /\ content' = content /\ subkey' = subkey /\ errmsgs' = errmsgs
          /\ warnings' = IF strip(LastLine(file')) \in AllowListed
                         THEN warnings
                         ELSE Append(warnings, strip(LastLine(file')))]_vars

\* A line without a colon has followed a labelled line: the value is as it
\* was and the line is among the missing-colon lines.
C7_Witness ==
    /\ file = <<"2.   Site Location Information", "City or Town : Pasadena", "more text">>
    /\ FieldsOf(content) = {<<"2.", "City or Town", StrVal("Pasadena")>>}
    /\ warnings = <<"more text">>

\* The processed content lines of the first n lines of f that have no
\* colon and are not allow-listed, trimmed, in file order.
RECURSIVE ExpectedWarnings(_, _)
ExpectedWarnings(f, n) ==
    IF n = 0 THEN <<>>
    ELSE ExpectedWarnings(f, n - 1) \o
         (IF /\ strip(f[n]) # ""
             /\ ~IsHeadingLine(f[n])
             /\ ~HeadScan(f, n - 1).skipsection
             /\ ~MarkedUnskipped(SubSeq(f, 1, n - 1))
             /\ ~contains(f[n], ":")
             /\ strip(f[n]) \notin AllowListed
          THEN <<strip(f[n])>> ELSE <<>>)

\* The lines that a warning text lists after its first line.
ListedLines(text) ==
    LET parts == split_sep(text, "\n")
    IN  [i \in 1..(Len(parts) - 1) |-> strip(parts[i + 1])]

\* C8: after a successful load the 'warning' entry lists exactly the
\* processed content lines without a colon that are not allow-listed, once
\* per occurrence and in file order; there is no 'warning' key when there
\* is no such line; and a file whose values can all be cleaned loads
\* successfully whatever lines without a colon it has.
C8_WarningsExact ==
    /\ (Ended /\ outcome = "returned") =>
          IF ExpectedWarnings(file, Len(file)) = <<>>
          THEN \A e \in 1..Len(self_content) : self_content[e].k # "warning"
          ELSE \E e \in 1..Len(self_content) :
                  /\ self_content[e].k = "warning" /\ self_content[e].t = "str"
                  /\ ListedLines(self_content[e].s) = ExpectedWarnings(file, Len(file))
                  /\ \A e2 \in 1..Len(self_content) : self_content[e2].k = "warning" => e2 = e
    /\ (Ended /\ \A i \in 1..Len(file) : file[i] # "Accuracy (mm) : abc") => outcome = "returned"

\* A successful load of a file with two lines without a colon, one of them
\* twice, and an allow-listed line.
C8_Witness ==
    /\ Ended /\ outcome = "returned"
    /\ file = <<"2.   Site Location Information", "more text", "Hardcopy on File", "more text">>
    /\ \E e \in 1..Len(self_content) :
          self_content[e].k = "warning" /\ ListedLines(self_content[e].s) = <<"more text", "more text">>

\* The value of a line, trimmed: the text after the first colon of a
\* content line or of what follows the numeral of a subsection heading.
ValueText(raw) ==
    LET l == strip(raw)
        t == split_ws1(l)
        ld == IF l = "" \/ MatchSection(l) THEN <<>>
              ELSE IF IsHeadingLine(l) THEN (IF Len(t) = 2 THEN split_sep1(t[2], ":") ELSE <<>>)
              ELSE split_sep1(l, ":")
    IN  IF Len(ld) = 2 THEN strip(ld[2]) ELSE ""

IsPlaceholderLine(raw) == startswith(ValueText(raw), "(")

\* Every stored field has a line with a value that is not a placeholder,
\* under its label or as a continuation.
FieldsHaveValueLines ==
    \A x \in FieldsOf(content) :
        \E i \in 1..Len(file) :
            /\ ValueText(file[i]) # "" /\ ~IsPlaceholderLine(file[i])
            /\ strip(LabelText(file[i])) \in {x[2], ""}

\* C9: a line whose value begins with '(' changes no stored field, makes
\* no section entry and adds no error, whatever its label; a label that
\* has placeholder values only is not in the record.
C9_PlaceholderChangesNothing ==
    /\ [][(pc = "scan" /\ Len(file') = Len(file) + 1 /\ IsPlaceholderLine(LastLine(file')))
            => (content' = content /\ errmsgs' = errmsgs /\ outcome' = outcome)]_vars
    /\ []FieldsHaveValueLines

\* Placeholder lines of a date label, one of them a continuation, have
\* followed a stored date; a heading with a placeholder made no entry.
C9_Witness ==
    /\ file = <<"3.   Receiver Information", "Date Installed : 2020-01-01",
                "Date Installed : (CCYY-MM-DDThh:mmZ)", " : (continued)">>
    /\ pc = "scan" /\ errmsgs = <<>>
    /\ Len(content) = 1 /\ DOMAIN content[1].d = {"Date Installed"}

\* The contact prefix after the first n lines of f: set by the lines
\* 'Primary Contact' and 'Secondary Contact' and cleared by a label that
\* starts with 'Additional' while the section is '11.', empty in every
\* other section; a line of a skipped 'x' subsection is not read.
RECURSIVE ExpectedPrefix(_, _)
ExpectedPrefix(f, n) ==
    IF n = 0 THEN ""
    ELSE IF strip(f[n]) = "" \/ HeadScan(f, n).skipsection THEN ExpectedPrefix(f, n - 1)
    ELSE IF HeadScan(f, n).sectionnum # "11." THEN ""
    ELSE IF strip(f[n]) = "Primary Contact" THEN "primary_"
    ELSE IF strip(f[n]) = "Secondary Contact" THEN "secondary_"
    ELSE IF startswith(LabelText(f[n]), "Additional") THEN ""
    ELSE ExpectedPrefix(f, n - 1)

\* The line read is a labelled line with a value to store.
StoresLabelled ==
    /\ ReadsLine
    /\ ~HeadScan(file', Len(file')).skipsection
    /\ contains(LastLine(file'), ":")
    /\ strip(LabelText(LastLine(file'))) # ""
    /\ ValueText(LastLine(file')) # "" /\ ~IsPlaceholderLine(LastLine(file'))

\* C10: a labelled field is stored under 'primary_' or 'secondary_' plus
\* its label when the section is '11.' and the last of the lines 'Primary
\* Contact', 'Secondary Contact' and labels starting with 'Additional' is
\* that contact line; in every other case under the label alone.
C10_ContactPrefix ==
    [][StoresLabelled =>
          LET sk == ExpectedPrefix(file', Len(file')) \o strip(LabelText(LastLine(file')))
              key == IF Truthy(subsectionnum') THEN subsectionnum' ELSE sectionnum'
          IN  /\ subkey' = sk
              /\ HasField(content', key, sk)
              /\ \A x \in FieldsOf(content') \ FieldsOf(content) : x[1] = key /\ x[2] = sk]_vars

\* A primary contact field in section 11 and the same label without prefix
\* in section 12.
C10_Witness ==
    /\ file = <<"11.  On-Site, Point of Contact Agency Information", "Primary Contact",
                "Contact Name : Bob", "12.  Responsible Agency">>
    /\ FieldsOf(content) = {<<"11.", "primary_Contact Name", StrVal("Bob")>>}
    /\ prefx = ""

\* The locals after the loop has read the lines of f, started on st.
RECURSIVE ScanLines(_, _), ScanNext(_, _)
ScanLines(st, f) ==
    IF f = <<>> THEN st
    ELSE ScanNext(LoopBody(st, Head(f)), Tail(f))

ScanNext(r, rest) == IF r.brk \/ r.exc # "" THEN r.st ELSE ScanLines(r.st, rest)

\* The record of the file f loaded by a new parser.
FreshRecord(f) == Finish(ScanLines(InitLocals, f)).content2

\* The step that ends a call of loadFromFile.
EndsLoad == pc = "scan" /\ pc' = "idle"

\* C11: getContent returns an empty mapping before the first call of
\* loadFromFile; after a call that returned it returns the record of that
\* call's file alone; after a call that failed it does not return the
\* record of an earlier file.
C11_LatestRecordOnly ==
    /\ [](loads = 0 => self_content = <<>>)
    /\ [][EndsLoad =>
            IF outcome' = "returned"
            THEN self_content' = FreshRecord(file)
            ELSE self_content # <<>> => self_content' # self_content]_vars

\* A result of dms2dec in 10^-6 degrees (the digits after the sixth are
\* dropped), and the distance of two such numbers.
DegMicro(v) == v.n[1] * (v.n[2] * Pow10(6) + (v.n[3] \div 100))
Dist(a, b) == IF a < b THEN b - a ELSE a - b

\* C12: dms2dec succeeds on each of the two strings that fmt_ll_dms_str
\* returns for a latitude and a longitude, and its result is within 0.01
\* degrees of the coordinate.
C12_DmsRoundTrip ==
    decdeg # <<>> =>
        \A i \in 1..2 : decdeg[i].ok /\ Dist(DegMicro(decdeg[i].val), ll[i]) <= 10000

\* The labels of the fields that hold one date.
DateOnlyLabels == {"Date Installed", "Date Removed", "Date Measured", "Calibration date", "Date Prepared"}

\* The line read is a processed line with a date label and a value.
ReadsDateField ==
    /\ ReadsUnskipped
    /\ strip(LabelText(LastLine(file'))) \in DateOnlyLabels
    /\ ValueText(LastLine(file')) # ""

\* What C13 says of a date label lab with the value val.
DateFieldOutcome(lab, val) ==
    IF contains(val, "CCYY-MM-DD")
    THEN FieldsOf(content') = FieldsOf(content) /\ errmsgs' = errmsgs
    ELSE IF parse_date(val).ok
    THEN /\ HasField(content', CurKey, lab)
         /\ FieldVal(content', CurKey, lab) = parse_date(val).val
         /\ FieldVal(content', CurKey, lab).t = "datetime"
         /\ errmsgs' = errmsgs
    ELSE /\ FieldsOf(content') = FieldsOf(content)
         /\ Len(errmsgs') = Len(errmsgs) + 1

\* C13: a value of a date label with the text 'CCYY-MM-DD' stores nothing
\* and records no error; a value in one of the four formats stores its UTC
\* timestamp; any other value stores nothing and records one error, and
\* the load with a recorded error does not return.
C13_DateFields ==
    /\ [][ReadsDateField =>
            DateFieldOutcome(strip(LabelText(LastLine(file'))), ValueText(LastLine(file')))]_vars
    /\ []((Ended /\ errmsgs # <<>>) => outcome # "returned")

\* The field mapping of the raw key at position i of the scan's content is
\* in the record: as the value of its final key for a bare numeral, as an
\* element of the list of its final key for a numeral with a suffix.
RawKeyKept(i) ==
    \E e \in 1..Len(self_content) :
        /\ self_content[e].k = GroupOf(content[i].k)
        /\ IF Bare(content[i].k)
           THEN self_content[e].t = "dict" /\ self_content[e].d = content[i].d
           ELSE /\ self_content[e].t = "list"
                /\ \E j \in 1..Len(self_content[e].l) : self_content[e].l[j] = content[i].d

\* C14: when the scan has ended without an error, pass 2 completes and the
\* field mapping of every raw key is in the record, also when a bare
\* numeral 'N.' and numerals 'N.k' have the same final key.
C14_NothingLost ==
    (Ended /\ errmsgs = <<>>) =>
        /\ outcome = "returned"
        /\ \A i \in 1..Len(content) : RawKeyKept(i)

\* A subsection heading that is its numeral alone ('3.2', '8.1.1').
LoneNumeral(raw) ==
    /\ PlainNumeral(strip(raw))
    /\ ~endswith(strip(raw), ".")

\* C15: a subsection heading that is its numeral alone makes the numeral
\* the current subsection and records no error; the load does not fail
\* because of it.
C15_LoneHeading ==
    /\ [][(ReadsLine /\ LoneNumeral(LastLine(file'))) =>
            /\ subsectionnum' = strip(LastLine(file'))
            /\ ~skipsection'
            /\ errmsgs' = errmsgs]_vars
    /\ []((Ended /\ \A i \in 1..Len(file) : LoneNumeral(file[i]) \/ file[i] = "Notes : n")
            => outcome = "returned")

\* A line that the scan takes as a heading, and one that it takes as the
\* heading of an 'x' subsection.
ScannedHeading(raw) == MatchSection(strip(raw)) \/ MatchSubsection(strip(raw))
ScannedXHeading(raw) == MatchSubsection(strip(raw)) /\ endswith(FirstToken(raw), "x")

\* No heading has been read yet, or the last heading read is that of an
\* 'x' subsection.
InSkippedPart(f) ==
    \/ \A i \in 1..Len(f) : ~ScannedHeading(f[i])
    \/ \E i \in 1..Len(f) :
          ScannedXHeading(f[i]) /\ \A j \in (i + 1)..Len(f) : ~ScannedHeading(f[j])

IsLabelled(raw) == contains(raw, ":") /\ strip(LabelText(raw)) # ""

\* The last heading of f has no label of its own and no labelled line has
\* followed it: the current section or subsection has no label yet.
NoLabelYet(f) ==
    \E h \in 1..Len(f) :
        /\ IsHeadingLine(f[h]) /\ ~IsLabelled(f[h])
        /\ \A j \in (h + 1)..Len(f) : ~IsHeadingLine(f[j]) /\ ~IsLabelled(f[j])

\* C17: a continuation line that comes before any labelled line of its
\* section stores nothing under the label of an earlier section; no label
\* with a contact prefix is in the mapping of section 12.
C17_NoCarriedLabel ==
    /\ [][(/\ ReadsUnskipped /\ IsContinuation(LastLine(file'))
           /\ ContText(LastLine(file')) # ""
           /\ NoLabelYet(file))
            => FieldsOf(content') = FieldsOf(content)]_vars
    /\ [](\A x \in FieldsOf(content) :
            x[1] = "12." => ~startswith(x[2], "primary_") /\ ~startswith(x[2], "secondary_"))

\* The labels of the fields that hold a date range.
RangeLabels == {"Effective Dates", "Date"}

\* Every part of the value between '/' characters is a date or a text
\* that stands for no date.
AllPartsParse(val) ==
    \A i \in 1..Len(split_sep(val, "/")) : parse_date(split_sep(val, "/")[i]).ok

\* A value of two elements, each a timestamp or absent.
IsDatePair(v) ==
    /\ v.t = "list" /\ Len(v.l) = 2
    /\ \A i \in 1..Len(v.l) : v.l[i].t \in {"datetime", "None"}

\* C18: a value of a date range label whose parts all parse is stored as a
\* sequence of exactly two elements, each a timestamp or absent, whatever
\* the number of '/' characters.
C18_DateRangePair ==
    [][(/\ ReadsUnskipped
        /\ strip(LabelText(LastLine(file'))) \in RangeLabels
        /\ ValueText(LastLine(file')) # ""
        /\ AllPartsParse(ValueText(LastLine(file'))))
         => /\ HasField(content', CurKey, strip(LabelText(LastLine(file'))))
            /\ IsDatePair(FieldVal(content', CurKey, strip(LabelText(LastLine(file')))))]_vars

\* The result b is the result a negated.
Negated(a, b) ==
    IF a.n[2] = 0 /\ a.n[3] = 0 THEN b.n[2] = 0 /\ b.n[3] = 0
    ELSE b.n = <<-a.n[1], a.n[2], a.n[3]>>

\* C19: for a digit string d, dms2dec('-' + d) = -dms2dec('+' + d); with
\* minutes or seconds that are not zero the result for '-' + d is
\* negative, also when the degree digits of d are all zero.
C19_SignOfDms2Dec ==
    (ll = <<>> /\ decdeg # <<>>) =>
        /\ decdeg[1].ok /\ decdeg[2].ok
        /\ Negated(decdeg[1].val, decdeg[2].val)
        /\ (decdeg[1].val.n[2] # 0 \/ decdeg[1].val.n[3] # 0) => decdeg[2].val.n[1] = -1

=============================================================================
